---- MODULE Spec2Model ----
(***************************************************************************)
(* LZW compressor / decompressor of lzw3 (lzw3/compressor.py,              *)
(* lzw3/decompressor.py) over the bit-granular file I/O of lzw3/io/bit.py  *)
(* and the byte I/O of lzw3/io/byte.py.                                    *)
(*                                                                         *)
(* Spec     : one compress(in, out.Z) followed by one decompress(out.Z,    *)
(*            after) of the file just produced, as tests/helper.py runs it.*)
(* SpecBits : a BitWriter fed an arbitrary sequence of (value, width)      *)
(*            writes, closed, then a BitReader reading the file back with  *)
(*            the same widths.                                             *)
(* SpecInserts : as Spec on long and on repetitive inputs, with _init() of *)
(*            both classes unfolded into one step per insert.              *)
(* SpecFiles : decompress on a file that compress need not have written.   *)
(* SpecPaths : as Spec on paths that may or may not exist beforehand.      *)
(* SpecReads : a BitReader on an arbitrary file, read with changing widths *)
(*            through and past the end of the file.                        *)
(* SpecCompressor : LZWCompressorHelper._handle_file on a regular file.    *)
(* SpecDecompressor : LZWDecompressorHelper._handle_file on a regular file.*)
(***************************************************************************)
EXTENDS Integers, Sequences, FiniteSets, TLC

VARIABLES
    pc,       \* position of the running program
    input,    \* content of the file given to compress
    in_pos,   \* number of bytes the ByteReader has consumed
    comp,     \* LZWCompressor: _sequence_table, _next_sequence_number, _current_sequence_bit_count
    seq_parent,   \* local of LZWCompressor.compress
    bw,       \* BitWriter: _unalignment, _unaligned_rest
    zfile,    \* content of the file written by the BitWriter / read by the BitReader
    zclosed,  \* whether BitWriter.close() has run
    written,  \* history: the (value, width) pairs passed to BitWriter.write by its client
    decomp,   \* LZWDecompressor: _sequence_table, _next_sequence_number, _current_sequence_bit_count
    br,       \* BitReader: position in file, _bits_per_read, _read_bit_count, _unaligned_rest, _eof
    dloc,     \* locals of LZWDecompressor.decompress: seq_parent_path, seq_path, seq_path_first
    out,      \* content of the file written by the ByteWriter
    readlog,  \* history: the (value, width, eof) of every BitReader read
    result,   \* outcome of compress and of decompress
    exists,   \* whether the three paths exist: the input, the compressed file, the output
    handles,  \* the file objects of compress (c_in, c_out) and of decompress (d_in, d_out)
    drv       \* LZWHelper: flags, locals and position of _handle_file, permission masks, os calls

vars == <<pc, input, in_pos, comp, seq_parent, bw, zfile, zclosed, written,
          decomp, br, dloc, out, readlog, result, exists, handles, drv>>

----------------------------------------------------------------------------
(* Bounds of the model *)

\* inputs of Spec: every byte string over SmallBytes of length 0..MaxLen
MaxLen == 4
\* SpecBits: number of BitWriter.write calls before close()
MaxWrites == 3
\* SpecBits: widths 1..MaxWidth, BYTE_SIZE, and one wide width WideWidth
MaxWidth == 4
WideWidth == 17

----------------------------------------------------------------------------
(* Program constants *)

BYTE_SIZE == 8
BYTE_MASK == 255
ROOT == -1
ALPHABET_SIZE == 256
STREAM_END == ALPHABET_SIZE

----------------------------------------------------------------------------
(* Python integer operators *)

\* v >> n on Python ints (arithmetic shift: floor division)
ShiftRight(v, n) == v \div (2 ^ n)

\* v << n
ShiftLeft(v, n) == v * (2 ^ n)

\* a & b for a mask b >= 0 (a may be negative: two's complement of unbounded width)
RECURSIVE BitAnd(_, _)
BitAnd(a, b) ==
    IF b = 0 THEN 0
    ELSE (a % 2) * (b % 2) + 2 * BitAnd(a \div 2, b \div 2)

\* a | b for a, b >= 0
RECURSIVE BitOr(_, _)
BitOr(a, b) ==
    IF a = 0 THEN b
    ELSE IF b = 0 THEN a
    ELSE (IF a % 2 = 1 \/ b % 2 = 1 THEN 1 ELSE 0) + 2 * BitOr(a \div 2, b \div 2)

----------------------------------------------------------------------------
(* BitWriter (lzw3/io/bit.py) *)

\* state of a BitWriter just constructed: the file is opened "wb" (truncated)
BitWriter_init == [unalignment |-> 0, unaligned_rest |-> 0]

\* faulty variant of WriteByte: the bits staged by the previous write are dropped
WriteByte_NoRest(value, shift, w) ==
    BitAnd(ShiftRight(value, shift), ShiftRight(BYTE_MASK, w.unalignment))

\* the byte formed in one iteration of the loop of write()
WriteByte(value, shift, w) ==
    BitOr(BitAnd(ShiftRight(value, shift), ShiftRight(BYTE_MASK, w.unalignment)),
          w.unaligned_rest)

\* faulty variant of StageRest: the bits already staged are overwritten
StageRest_NoOr(value, unalignment, rest) ==
    BitAnd(ShiftLeft(value, BYTE_SIZE - unalignment), BYTE_MASK)

\* the bits staged after the loop of write()
StageRest(value, unalignment, rest) ==
    BitOr(BitAnd(ShiftLeft(value, BYTE_SIZE - unalignment), BYTE_MASK), rest)

\* while shift >= 0: write one byte, shift -= 8, reset the unalignment
\* s = [w |-> writer state, file |-> bytes of the file, shift |-> shift]
RECURSIVE WriteLoop(_, _)
WriteLoop(value, s) ==
    IF s.shift >= 0
    THEN WriteLoop(value,
                   [w     |-> [unalignment |-> 0, unaligned_rest |-> 0],
                    file  |-> Append(s.file, WriteByte(value, s.shift, s.w)),
                    shift |-> s.shift - BYTE_SIZE])
    ELSE s

\* BitWriter.write(value, bits_per_write): the new writer state and file
BitWriter_write(w, file, value, bits_per_write) ==
    LET s == WriteLoop(value,
                       [w |-> w, file |-> file,
                        shift |-> bits_per_write - (BYTE_SIZE - w.unalignment)])
        u == s.shift + BYTE_SIZE
    IN  [w    |-> [unalignment    |-> u,
                   unaligned_rest |-> StageRest(value, u, s.w.unaligned_rest)],
         file |-> s.file]

\* BitWriter.close(): unalignment := 0, write(unaligned_rest, 8), close the file
BitWriter_close(w, file) ==
    BitWriter_write([w EXCEPT !.unalignment = 0], file, w.unaligned_rest, BYTE_SIZE)

----------------------------------------------------------------------------
(* BitReader (lzw3/io/bit.py) *)

\* state of a BitReader just constructed (bits_per_read defaults to BYTE_SIZE)
BitReader_init ==
    [pos |-> 0, bits_per_read |-> BYTE_SIZE, read_bit_count |-> 0,
     unaligned_rest |-> 0, eof |-> FALSE]

\* faulty variant of ReadRest: the mask is one bit too wide, so the last bit
\* already returned stays buffered
ReadRest_OffByOne(v, read_bit_count) ==
    BitAnd(v, ShiftRight(BYTE_MASK, BYTE_SIZE - 1 - read_bit_count))

\* the buffered bits kept after a read: v & (BYTE_MASK >> (BYTE_SIZE - read_bit_count))
ReadRest(v, read_bit_count) ==
    BitAnd(v, ShiftRight(BYTE_MASK, BYTE_SIZE - read_bit_count))

\* while read_bit_count < bits_per_read: read one byte, or stop at end of file
\* s = [r |-> reader state, v |-> accumulator, hit_eof |-> the file ran out]
RECURSIVE ReadLoop(_, _)
ReadLoop(file, s) ==
    IF s.r.read_bit_count < s.r.bits_per_read
    THEN IF s.r.pos < Len(file)
         THEN ReadLoop(file,
                       [r |-> [s.r EXCEPT !.pos = @ + 1,
                                          !.read_bit_count = @ + BYTE_SIZE],
                        v |-> BitOr(file[s.r.pos + 1], ShiftLeft(s.v, BYTE_SIZE)),
                        hit_eof |-> FALSE])
         ELSE [r |-> [s.r EXCEPT !.eof = TRUE], v |-> s.r.unaligned_rest,
               hit_eof |-> TRUE]
    ELSE s

\* faulty variant of BitReader_next: the eof flag is not tested, so the
\* buffered bits are returned again instead of StopIteration being raised
BitReader_next_NoStop(r, file) ==
    LET s == ReadLoop(file, [r |-> r, v |-> r.unaligned_rest, hit_eof |-> FALSE])
        n == s.r.read_bit_count - s.r.bits_per_read
    IN  IF s.hit_eof
        THEN [stop |-> FALSE, r |-> s.r, value |-> s.v, hit_eof |-> TRUE]
        ELSE [stop |-> FALSE,
              r |-> [s.r EXCEPT !.read_bit_count = n,
                                !.unaligned_rest = ReadRest(s.v, n)],
              value |-> ShiftRight(s.v, n),
              hit_eof |-> FALSE]

\* BitReader.__next__(): stop |-> StopIteration raised, else the value returned
BitReader_next(r, file) ==
    IF r.eof
    THEN [stop |-> TRUE, r |-> r, value |-> 0, hit_eof |-> FALSE]
    ELSE LET s == ReadLoop(file, [r |-> r, v |-> r.unaligned_rest, hit_eof |-> FALSE])
             n == s.r.read_bit_count - s.r.bits_per_read
         IN  IF s.hit_eof
             THEN [stop |-> FALSE, r |-> s.r, value |-> s.v, hit_eof |-> TRUE]
             ELSE [stop |-> FALSE,
                   r |-> [s.r EXCEPT !.read_bit_count = n,
                                     !.unaligned_rest = ReadRest(s.v, n)],
                   value |-> ShiftRight(s.v, n),
                   hit_eof |-> FALSE]

\* BitReader.set_bits_per_read(bits_per_read)
BitReader_set_bits_per_read(r, bits_per_read) ==
    [r EXCEPT !.bits_per_read = bits_per_read]

\* faulty variant of BitReader_read: the width is used for this read only and
\* the width of the reader is put back afterwards
BitReader_read_Once(r, file, bits_per_read) ==
    LET n == BitReader_next(BitReader_set_bits_per_read(r, bits_per_read), file)
    IN  [n EXCEPT !.r = BitReader_set_bits_per_read(n.r, r.bits_per_read)]

\* BitReader.read(bits_per_read): the width stays in force for later reads
BitReader_read(r, file, bits_per_read) ==
    BitReader_next(BitReader_set_bits_per_read(r, bits_per_read), file)

----------------------------------------------------------------------------
(* ByteWriter (lzw3/io/byte.py) *)

\* bytearray(values) raises ValueError unless every value is in range(256)
ByteWriter_accepts(values) ==
    \A i \in 1..Len(values) : values[i] \in 0..BYTE_MASK

----------------------------------------------------------------------------
(* LZWCompressor (lzw3/compressor.py) *)

\* the value of _get_sequence for a missing key (Python None)
NoSequence == -2

EmptyTable == [k \in {} |-> 0]

\* _sequence_table[key] = value on a Python dict
DictPut(table, key, value) ==
    IF key \in DOMAIN table
    THEN [table EXCEPT ![key] = value]
    ELSE table @@ (key :> value)

\* faulty variant of CompressorWidthStep: the number is incremented first
CompressorWidthStep_After(next_sequence_number, bit_count) ==
    ShiftRight(next_sequence_number + 1, bit_count)

\* faulty variant of CompressorWidthStep: the shift is one bit too long
CompressorWidthStep_Late(next_sequence_number, bit_count) ==
    ShiftRight(next_sequence_number, bit_count + 1)

\* the amount added to _current_sequence_bit_count by an insert of the compressor
CompressorWidthStep(next_sequence_number, bit_count) ==
    ShiftRight(next_sequence_number, bit_count)

\* faulty variant of InsertNextSequence: the number is stored after its increment
InsertNextSequence_Late(c, parent_seq, edge) ==
    [sequence_table |->
         DictPut(c.sequence_table, <<parent_seq, edge>>, c.next_sequence_number + 1),
     current_sequence_bit_count |->
         c.current_sequence_bit_count
         + CompressorWidthStep(c.next_sequence_number, c.current_sequence_bit_count),
     next_sequence_number |-> c.next_sequence_number + 1]

\* faulty variant of InsertNextSequence: the bit count is assigned ("=") where
\* the source adds to it ("+=")
InsertNextSequence_Assign(c, parent_seq, edge) ==
    [sequence_table |->
         DictPut(c.sequence_table, <<parent_seq, edge>>, c.next_sequence_number),
     current_sequence_bit_count |->
         CompressorWidthStep(c.next_sequence_number, c.current_sequence_bit_count),
     next_sequence_number |-> c.next_sequence_number + 1]

\* LZWCompressor._insert_next_sequence(parent_seq, edge)
InsertNextSequence(c, parent_seq, edge) ==
    [sequence_table |->
         DictPut(c.sequence_table, <<parent_seq, edge>>, c.next_sequence_number),
     current_sequence_bit_count |->
         c.current_sequence_bit_count
         + CompressorWidthStep(c.next_sequence_number, c.current_sequence_bit_count),
     next_sequence_number |-> c.next_sequence_number + 1]

\* faulty variant of GetSequence: only the edges that leave ROOT are found
GetSequence_Shallow(c, parent_seq, edge) ==
    IF parent_seq = ROOT /\ <<parent_seq, edge>> \in DOMAIN c.sequence_table
    THEN c.sequence_table[<<parent_seq, edge>>]
    ELSE NoSequence

\* LZWCompressor._get_sequence(parent_seq, edge)
GetSequence(c, parent_seq, edge) ==
    IF <<parent_seq, edge>> \in DOMAIN c.sequence_table
    THEN c.sequence_table[<<parent_seq, edge>>]
    ELSE NoSequence

\* for i in range(lo, hi + 1): _insert_next_sequence(ROOT, i)
\* The loop is unfolded by halves, the first half evaluated before the second
\* is entered (the test on left is always true and only fixes that order), so
\* that the evaluation stays shallow.
RECURSIVE CompressorInitAlphabet(_, _, _)
CompressorInitAlphabet(c, lo, hi) ==
    IF lo > hi THEN c
    ELSE IF lo = hi THEN InsertNextSequence(c, ROOT, lo)
    ELSE LET mid == (lo + hi) \div 2
             left == CompressorInitAlphabet(c, lo, mid)
         IN  IF left.next_sequence_number >= 0
             THEN CompressorInitAlphabet(left, mid + 1, hi)
             ELSE left

\* the compressor before _init has run
CompressorBlank ==
    [sequence_table |-> EmptyTable, next_sequence_number |-> 0,
     current_sequence_bit_count |-> 0]

\* LZWCompressor._init()
Compressor_init ==
    InsertNextSequence(CompressorInitAlphabet(CompressorBlank, 0, ALPHABET_SIZE - 1),
                       ROOT, STREAM_END)

----------------------------------------------------------------------------
(* LZWDecompressor (lzw3/decompressor.py) *)

\* faulty variant of DecompressorWidthStep: the number before its increment is used
DecompressorWidthStep_Before(n, bit_count) ==
    ShiftRight(n - 1, bit_count)

\* the amount added to _current_sequence_bit_count by an insert of the decompressor
\* (n is _next_sequence_number after its increment)
DecompressorWidthStep(n, bit_count) ==
    ShiftRight(n, bit_count)

\* LZWDecompressor._insert_next_sequence_path(seq_path)
InsertNextSequencePath(d, seq_path) ==
    LET n == d.next_sequence_number + 1
    IN  [sequence_table |-> Append(d.sequence_table, seq_path),
         next_sequence_number |-> n,
         current_sequence_bit_count |->
             d.current_sequence_bit_count
             + DecompressorWidthStep(n, d.current_sequence_bit_count)]

\* faulty variant of NewSequencePath: the parent path is not extended
NewSequencePath_Bare(seq_parent_path, seq_path_first) ==
    seq_parent_path

\* new_seq_path = seq_parent_path + [seq_path_first]
NewSequencePath(seq_parent_path, seq_path_first) ==
    Append(seq_parent_path, seq_path_first)

\* whether _sequence_table[seq] exists (else IndexError); seq is never negative
HasSequencePath(d, seq) == seq < Len(d.sequence_table)

\* LZWDecompressor._get_sequence_path(seq)
GetSequencePath(d, seq) == d.sequence_table[seq + 1]

\* for i in range(lo, hi + 1): _insert_next_sequence_path([i])
\* (unfolded by halves like CompressorInitAlphabet)
RECURSIVE DecompressorInitAlphabet(_, _, _)
DecompressorInitAlphabet(d, lo, hi) ==
    IF lo > hi THEN d
    ELSE IF lo = hi THEN InsertNextSequencePath(d, <<lo>>)
    ELSE LET mid == (lo + hi) \div 2
             left == DecompressorInitAlphabet(d, lo, mid)
         IN  IF left.next_sequence_number >= 0
             THEN DecompressorInitAlphabet(left, mid + 1, hi)
             ELSE left

\* the decompressor before _init has run
DecompressorBlank ==
    [sequence_table |-> <<>>, next_sequence_number |-> 0,
     current_sequence_bit_count |-> 0]

\* LZWDecompressor._init()
Decompressor_init ==
    InsertNextSequencePath(DecompressorInitAlphabet(DecompressorBlank, 0, ALPHABET_SIZE - 1),
                           <<STREAM_END>>)

----------------------------------------------------------------------------
(* Inputs *)

\* the byte values the short inputs are drawn from: 'A', 'B'
SmallBytes == {65, 66}

\* every byte value once, in ascending order
AllBytes == [i \in 1..ALPHABET_SIZE |-> i - 1]

SeqsUpTo(S, n) == UNION {[1..k -> S] : k \in 0..n}

Inputs == SeqsUpTo(SmallBytes, MaxLen) \cup {AllBytes}

\* the widths written in SpecBits: the narrow ones, one byte, and a wide one
Widths == (1..MaxWidth) \cup {BYTE_SIZE, WideWidth}

\* the n-bit value of alternating bits ending in 1 for odd n, in 0 for even n
RECURSIVE Alternating(_)
Alternating(n) == IF n = 0 THEN 0 ELSE 2 * Alternating(n - 1) + (n % 2)

\* the values written with n bits in SpecBits: the alternating bits and their
\* complement, so that every bit position carries a 0 and a 1
ValuesOf(n) == {Alternating(n), 2 ^ n - 1 - Alternating(n)}

----------------------------------------------------------------------------
(* Spec: compress, then decompress the result *)

NoLocals == [seq_parent_path |-> <<>>, seq_path |-> <<>>, seq_path_first |-> 0]

\* no file object has been created: "none", then "open", then "closed"
NoHandles == [c_in |-> "none", c_out |-> "none", d_in |-> "none", d_out |-> "none"]

\* no _handle_file is running: flags of the LZWHelper (force, keep), whether
\* the name of the file ends in .Z, the locals of _handle_file, the
\* permission mask each path has (or gets when it is created), the os.remove
\* and os.chmod calls made, and the exception _handle_file itself raised
NoDriver ==
    [force |-> FALSE, keep |-> FALSE, named_z |-> FALSE, in_place |-> FALSE,
     uncompressed_size |-> 0, perm_mask |-> 0,
     mode |-> [input |-> 0, zfile |-> 0, out |-> 0],
     calls |-> <<>>, raised |-> "none"]

Init ==
    /\ pc = "compress"
    /\ input \in Inputs
    /\ in_pos = 0
    /\ comp = CompressorBlank
    /\ seq_parent = ROOT
    /\ bw = BitWriter_init
    /\ zfile = <<>>
    /\ zclosed = FALSE
    /\ written = <<>>
    /\ decomp = DecompressorBlank
    /\ br = BitReader_init
    /\ dloc = NoLocals
    /\ out = <<>>
    /\ readlog = <<>>
    /\ result = [compress |-> "none", decompress |-> "none"]
    /\ exists = [input |-> TRUE, zfile |-> FALSE, out |-> FALSE]
    /\ handles = NoHandles
    /\ drv = NoDriver

\* faulty variant of CompressBegin: the output file is opened without being
\* emptied ("ab" where the source has "wb")
CompressBegin_Appends ==
    /\ pc = "compress"
    /\ exists.input
    /\ pc' = "c_loop"
    /\ comp' = Compressor_init
    /\ in_pos' = 0
    /\ bw' = BitWriter_init
    /\ exists' = [exists EXCEPT !.zfile = TRUE]
    /\ handles' = [handles EXCEPT !.c_in = "open", !.c_out = "open"]
    /\ seq_parent' = ROOT
    /\ UNCHANGED <<input, zfile, zclosed, written, decomp, br, dloc, out, readlog,
                   result, drv>>

\* compress(): the input exists; _init(), open both files, seq_parent = ROOT
CompressBegin ==
    /\ pc = "compress"
    /\ exists.input
    /\ pc' = "c_loop"
    /\ comp' = Compressor_init
    /\ in_pos' = 0
    /\ bw' = BitWriter_init
    /\ zfile' = <<>>
    /\ exists' = [exists EXCEPT !.zfile = TRUE]
    /\ handles' = [handles EXCEPT !.c_in = "open", !.c_out = "open"]
    /\ seq_parent' = ROOT
    /\ UNCHANGED <<input, zclosed, written, decomp, br, dloc, out, readlog, result,
                   drv>>

\* one iteration of "for c in self._in_file"
CompressStep ==
    /\ pc = "c_loop"
    /\ in_pos < Len(input)
    /\ LET c   == input[in_pos + 1]
           seq == GetSequence(comp, seq_parent, c)
       IN  IF seq # NoSequence
           THEN /\ seq_parent' = seq
                /\ UNCHANGED <<comp, bw, zfile, written>>
           ELSE LET w  == BitWriter_write(bw, zfile, seq_parent,
                                          comp.current_sequence_bit_count)
                    c2 == InsertNextSequence(comp, seq_parent, c)
                IN  /\ bw' = w.w
                    /\ zfile' = w.file
                    /\ written' = Append(written,
                                         <<seq_parent, comp.current_sequence_bit_count>>)
                    /\ comp' = c2
                    /\ seq_parent' = GetSequence(c2, ROOT, c)
    /\ in_pos' = in_pos + 1
    /\ UNCHANGED <<pc, input, zclosed, decomp, br, dloc, out, readlog, result,
                   exists, handles, drv>>

\* the input is exhausted: write seq_parent, write STREAM_END, close, return True
CompressEnd ==
    /\ pc = "c_loop"
    /\ in_pos = Len(input)
    /\ LET width == comp.current_sequence_bit_count
           w1 == BitWriter_write(bw, zfile, seq_parent, width)
           w2 == BitWriter_write(w1.w, w1.file, STREAM_END, width)
           w3 == BitWriter_close(w2.w, w2.file)
       IN  /\ bw' = w3.w
           /\ zfile' = w3.file
           /\ written' = written \o << <<seq_parent, width>>, <<STREAM_END, width>> >>
    /\ zclosed' = TRUE
    /\ pc' = "c_done"
    /\ result' = [result EXCEPT !.compress = "True"]
    /\ handles' = [handles EXCEPT !.c_in = "closed", !.c_out = "closed"]
    /\ UNCHANGED <<input, in_pos, comp, seq_parent, decomp, br, dloc, out, readlog,
                   exists, drv>>

\* decompress() once _init() has left the decompressor as d and both files
\* are open: read the first code of file, the content the BitReader finds,
\* and write its path
DecompressOpenOn(d, file) ==
    LET n == BitReader_read(BitReader_init, file, d.current_sequence_bit_count)
    IN  /\ decomp' = d
        /\ br' = n.r
        /\ readlog' = << [value |-> n.value, width |-> n.r.bits_per_read,
                          eof |-> n.hit_eof] >>
        /\ IF ~HasSequencePath(d, n.value)
           THEN /\ pc' = "d_raised"
                /\ result' = [result EXCEPT !.decompress = "IndexError"]
                /\ out' = <<>>
                /\ dloc' = NoLocals
           ELSE LET seq_parent_path == GetSequencePath(d, n.value)
                IN  IF ~ByteWriter_accepts(seq_parent_path)
                    THEN /\ pc' = "d_raised"
                         /\ result' = [result EXCEPT !.decompress = "ValueError"]
                         /\ out' = <<>>
                         /\ dloc' = NoLocals
                    ELSE /\ pc' = "d_loop"
                         /\ out' = seq_parent_path
                         /\ dloc' = [seq_parent_path |-> seq_parent_path,
                                     seq_path |-> seq_parent_path,
                                     seq_path_first |-> seq_parent_path[1]]
                         /\ UNCHANGED result

\* decompress() from the two opens up to the loop, on the file at its own path
DecompressOpen(d) ==
    /\ DecompressOpenOn(d, zfile)
    /\ exists' = [exists EXCEPT !.out = TRUE]
    /\ handles' = [handles EXCEPT !.d_in = "open", !.d_out = "open"]
    /\ UNCHANGED <<input, in_pos, comp, seq_parent, bw, zfile, zclosed, written,
                   drv>>

\* decompress(): the input exists; _init(), then the rest up to the loop
DecompressBegin ==
    /\ pc = "c_done"
    /\ exists.zfile
    /\ DecompressOpen(Decompressor_init)

\* one iteration of "for seq in self._in_file" on a code other than STREAM_END
DecompressStep ==
    /\ pc = "d_loop"
    /\ LET n == BitReader_next(br, zfile)
           is_normal_case == n.value < decomp.next_sequence_number
           seq_path == IF is_normal_case THEN GetSequencePath(decomp, n.value)
                       ELSE dloc.seq_path
           seq_path_first == IF is_normal_case THEN seq_path[1]
                             ELSE dloc.seq_path_first
           new_seq_path == NewSequencePath(dloc.seq_parent_path, seq_path_first)
           seq_out_path == IF is_normal_case THEN seq_path ELSE new_seq_path
           d == InsertNextSequencePath(decomp, new_seq_path)
       IN  /\ ~n.stop
           /\ n.value # STREAM_END
           /\ readlog' = Append(readlog, [value |-> n.value, width |-> n.r.bits_per_read,
                                          eof |-> n.hit_eof])
           /\ decomp' = d
           /\ IF ByteWriter_accepts(seq_out_path)
              THEN /\ out' = out \o seq_out_path
                   /\ dloc' = [seq_parent_path |-> seq_out_path,
                               seq_path |-> seq_path,
                               seq_path_first |-> seq_path_first]
                   /\ br' = BitReader_set_bits_per_read(n.r, d.current_sequence_bit_count)
                   /\ UNCHANGED <<pc, result>>
              ELSE /\ pc' = "d_raised"
                   /\ result' = [result EXCEPT !.decompress = "ValueError"]
                   /\ br' = n.r
                   /\ UNCHANGED <<out, dloc>>
    /\ UNCHANGED <<input, in_pos, comp, seq_parent, bw, zfile, zclosed, written,
                   exists, handles, drv>>

\* the loop ends, on STREAM_END (break) or on StopIteration: close, return True
DecompressEnd ==
    /\ pc = "d_loop"
    /\ LET n == BitReader_next(br, zfile)
       IN  /\ n.stop \/ n.value = STREAM_END
           /\ br' = n.r
           /\ readlog' = IF n.stop THEN readlog
                         ELSE Append(readlog, [value |-> n.value,
                                               width |-> n.r.bits_per_read,
                                               eof |-> n.hit_eof])
    /\ pc' = "d_done"
    /\ result' = [result EXCEPT !.decompress = "True"]
    /\ handles' = [handles EXCEPT !.d_in = "closed", !.d_out = "closed"]
    /\ UNCHANGED <<input, in_pos, comp, seq_parent, bw, zfile, zclosed, written,
                   decomp, dloc, out, exists, drv>>

Next ==
    \/ CompressBegin
    \/ CompressStep
    \/ CompressEnd
    \/ DecompressBegin
    \/ DecompressStep
    \/ DecompressEnd

Spec == Init /\ [][Next]_vars

----------------------------------------------------------------------------
(* SpecBits: BitWriter writes, close(), then BitReader reads at the same widths *)

InitBits ==
    /\ pc = "bw_write"
    /\ input = <<>>
    /\ in_pos = 0
    /\ comp = CompressorBlank
    /\ seq_parent = ROOT
    /\ bw = BitWriter_init
    /\ zfile = <<>>
    /\ zclosed = FALSE
    /\ written = <<>>
    /\ decomp = DecompressorBlank
    /\ br = BitReader_init
    /\ dloc = NoLocals
    /\ out = <<>>
    /\ readlog = <<>>
    /\ result = [compress |-> "none", decompress |-> "none"]
    /\ exists = [input |-> FALSE, zfile |-> TRUE, out |-> FALSE]
    /\ handles = [NoHandles EXCEPT !.c_out = "open"]
    /\ drv = NoDriver

\* BitWriter.write(value, bits_per_write) with 0 <= value < 2^bits_per_write
BitsWrite ==
    /\ pc = "bw_write"
    /\ Len(written) < MaxWrites
    /\ \E bits_per_write \in Widths :
         \E value \in ValuesOf(bits_per_write) :
            LET w == BitWriter_write(bw, zfile, value, bits_per_write)
            IN  /\ bw' = w.w
                /\ zfile' = w.file
                /\ written' = Append(written, <<value, bits_per_write>>)
    /\ UNCHANGED <<pc, input, in_pos, comp, seq_parent, zclosed, decomp, br, dloc,
                   out, readlog, result, exists, handles, drv>>

\* BitWriter.close(), then a BitReader is opened on the file
BitsClose ==
    /\ pc = "bw_write"
    /\ LET w == BitWriter_close(bw, zfile)
       IN  /\ bw' = w.w
           /\ zfile' = w.file
    /\ zclosed' = TRUE
    /\ br' = BitReader_init
    /\ pc' = "br_read"
    /\ handles' = [handles EXCEPT !.c_out = "closed", !.d_in = "open"]
    /\ UNCHANGED <<input, in_pos, comp, seq_parent, written, decomp, dloc, out,
                   readlog, result, exists, drv>>

\* BitReader.read(n) with the width of the next value written
BitsRead ==
    /\ pc = "br_read"
    /\ Len(readlog) < Len(written)
    /\ LET n == BitReader_read(br, zfile, written[Len(readlog) + 1][2])
       IN  /\ ~n.stop
           /\ br' = n.r
           /\ readlog' = Append(readlog, [value |-> n.value,
                                          width |-> n.r.bits_per_read,
                                          eof |-> n.hit_eof])
    /\ UNCHANGED <<pc, input, in_pos, comp, seq_parent, bw, zfile, zclosed, written,
                   decomp, dloc, out, result, exists, handles, drv>>

NextBits ==
    \/ BitsWrite
    \/ BitsClose
    \/ BitsRead

SpecBits == InitBits /\ [][NextBits]_vars

----------------------------------------------------------------------------
(* SpecInserts: compress, then decompress, on long inputs, with _init() of
   both classes unfolded into one step per insert *)

\* the number of bytes that follow 0x00..0xFF in the longest input
MaxTail == 1

\* 0x00..0xFF followed by up to MaxTail bytes 0x00: 256 data codes and more
LongInputs == {AllBytes \o t : t \in SeqsUpTo({0}, MaxTail)}

\* short inputs with a repeated sequence: 'AAA' makes the decoder read a code
\* it has not yet stored, 'AAAAAA' twice in a row, 'ABABABA' one of several
\* byte values; 'ABAB' makes the encoder follow a stored sequence
RepeatInputs ==
    {<<65, 65, 65>>, <<65, 66, 65, 66>>, <<65, 65, 65, 65, 65, 65>>,
     <<65, 66, 65, 66, 65, 66, 65>>}

InitInserts ==
    /\ pc = "c_init"
    /\ input \in LongInputs \cup RepeatInputs
    /\ in_pos = 0
    /\ comp = CompressorBlank
    /\ seq_parent = ROOT
    /\ bw = BitWriter_init
    /\ zfile = <<>>
    /\ zclosed = FALSE
    /\ written = <<>>
    /\ decomp = DecompressorBlank
    /\ br = BitReader_init
    /\ dloc = NoLocals
    /\ out = <<>>
    /\ readlog = <<>>
    /\ result = [compress |-> "none", decompress |-> "none"]
    /\ exists = [input |-> TRUE, zfile |-> FALSE, out |-> FALSE]
    /\ handles = NoHandles
    /\ drv = NoDriver

\* LZWCompressor._init(): one iteration of "for i in range(ALPHABET_SIZE)"
\* (i is _next_sequence_number, both count the inserts from 0)
CompressInitStep ==
    /\ pc = "c_init"
    /\ exists.input
    /\ comp.next_sequence_number < ALPHABET_SIZE
    /\ comp' = InsertNextSequence(comp, ROOT, comp.next_sequence_number)
    /\ UNCHANGED <<pc, input, in_pos, seq_parent, bw, zfile, zclosed, written,
                   decomp, br, dloc, out, readlog, result, exists, handles,
                   drv>>

\* the last insert of _init(), of (ROOT, STREAM_END); then compress() opens
\* both files and sets seq_parent = ROOT
CompressInitEnd ==
    /\ pc = "c_init"
    /\ comp.next_sequence_number = ALPHABET_SIZE
    /\ comp' = InsertNextSequence(comp, ROOT, STREAM_END)
    /\ pc' = "c_loop"
    /\ in_pos' = 0
    /\ bw' = BitWriter_init
    /\ zfile' = <<>>
    /\ exists' = [exists EXCEPT !.zfile = TRUE]
    /\ handles' = [handles EXCEPT !.c_in = "open", !.c_out = "open"]
    /\ seq_parent' = ROOT
    /\ UNCHANGED <<input, zclosed, written, decomp, br, dloc, out, readlog, result,
                   drv>>

\* LZWDecompressor._init(): one iteration of "for i in range(ALPHABET_SIZE)"
DecompressInitStep ==
    /\ pc = "c_done"
    /\ exists.zfile
    /\ decomp.next_sequence_number < ALPHABET_SIZE
    /\ decomp' = InsertNextSequencePath(decomp, <<decomp.next_sequence_number>>)
    /\ UNCHANGED <<pc, input, in_pos, comp, seq_parent, bw, zfile, zclosed, written,
                   br, dloc, out, readlog, result, exists, handles, drv>>

\* the last insert of _init(), of [STREAM_END]; then the rest of decompress()
\* up to the loop
DecompressInitEnd ==
    /\ pc = "c_done"
    /\ decomp.next_sequence_number = ALPHABET_SIZE
    /\ DecompressOpen(InsertNextSequencePath(decomp, <<STREAM_END>>))

NextInserts ==
    \/ CompressInitStep
    \/ CompressInitEnd
    \/ CompressStep
    \/ CompressEnd
    \/ DecompressInitStep
    \/ DecompressInitEnd
    \/ DecompressStep
    \/ DecompressEnd

SpecInserts == InitInserts /\ [][NextInserts]_vars

----------------------------------------------------------------------------
(* SpecFiles: decompress on a file that compress need not have written *)

\* the length in bytes of the longest file
MaxFileLen == 3

\* the bytes the files are made of: with them the 9-bit codes 0, 1, 64, 65,
\* 256, 257, 384, 385, 510, 511 and the three bytes 0x20 0xC0 0x00 that
\* compress writes for 'A' can be formed
FileBytes == {0, 32, 128, 192, 255}

Files == SeqsUpTo(FileBytes, MaxFileLen)

InitFiles ==
    /\ pc = "c_done"
    /\ input = <<>>
    /\ in_pos = 0
    /\ comp = CompressorBlank
    /\ seq_parent = ROOT
    /\ bw = BitWriter_init
    /\ zfile \in Files
    /\ zclosed = TRUE
    /\ written = <<>>
    /\ decomp = DecompressorBlank
    /\ br = BitReader_init
    /\ dloc = NoLocals
    /\ out = <<>>
    /\ readlog = <<>>
    /\ result = [compress |-> "none", decompress |-> "none"]
    /\ exists = [input |-> FALSE, zfile |-> TRUE, out |-> FALSE]
    /\ handles = NoHandles
    /\ drv = NoDriver

NextFiles ==
    \/ DecompressBegin
    \/ DecompressStep
    \/ DecompressEnd

SpecFiles == InitFiles /\ [][NextFiles]_vars

----------------------------------------------------------------------------
(* SpecPaths: compress(input, zfile), then decompress(zfile, out), on paths
   that may or may not exist beforehand *)

\* what the compressed path may hold beforehand: nothing, the stream that
\* compress writes for 'A', the stream-end marker alone at width 9
OldFiles == {<<>>, <<32, 192, 0>>, <<128, 0>>}

\* what the output path holds beforehand, if it exists
OldOutput == <<66>>

InitPaths ==
    /\ pc = "compress"
    /\ exists \in [input : BOOLEAN, zfile : BOOLEAN, out : BOOLEAN]
    /\ input \in (IF exists.input THEN SeqsUpTo(SmallBytes, MaxLen) ELSE {<<>>})
    /\ in_pos = 0
    /\ comp = CompressorBlank
    /\ seq_parent = ROOT
    /\ bw = BitWriter_init
    /\ zfile \in (IF exists.zfile THEN OldFiles ELSE {<<>>})
    /\ zclosed = FALSE
    /\ written = <<>>
    /\ decomp = DecompressorBlank
    /\ br = BitReader_init
    /\ dloc = NoLocals
    /\ out = (IF exists.out THEN OldOutput ELSE <<>>)
    /\ readlog = <<>>
    /\ result = [compress |-> "none", decompress |-> "none"]
    /\ handles = NoHandles
    /\ drv = NoDriver

\* faulty variant of CompressMissing: the output file is opened before the test
CompressMissing_Creates ==
    /\ pc = "compress"
    /\ ~exists.input
    /\ pc' = "c_done"
    /\ result' = [result EXCEPT !.compress = "False"]
    /\ zfile' = <<>>
    /\ exists' = [exists EXCEPT !.zfile = TRUE]
    /\ UNCHANGED <<input, in_pos, comp, seq_parent, bw, zclosed, written,
                   decomp, br, dloc, out, readlog, handles, drv>>

\* compress(): the input does not exist, return False
CompressMissing ==
    /\ pc = "compress"
    /\ ~exists.input
    /\ pc' = "c_done"
    /\ result' = [result EXCEPT !.compress = "False"]
    /\ UNCHANGED <<input, in_pos, comp, seq_parent, bw, zfile, zclosed, written,
                   decomp, br, dloc, out, readlog, exists, handles, drv>>

\* decompress(): the input does not exist, return False
DecompressMissing ==
    /\ pc = "c_done"
    /\ ~exists.zfile
    /\ pc' = "d_done"
    /\ result' = [result EXCEPT !.decompress = "False"]
    /\ UNCHANGED <<input, in_pos, comp, seq_parent, bw, zfile, zclosed, written,
                   decomp, br, dloc, out, readlog, exists, handles, drv>>

NextPaths ==
    \/ CompressMissing
    \/ CompressBegin
    \/ CompressStep
    \/ CompressEnd
    \/ DecompressMissing
    \/ DecompressBegin
    \/ DecompressStep
    \/ DecompressEnd

SpecPaths == InitPaths /\ [][NextPaths]_vars

----------------------------------------------------------------------------
(* SpecReads: a BitReader on an arbitrary file, read with widths that change
   between the reads, through and past the end of the file *)

MaxReads == 4

\* bytes with mixed bits: 0101 1010 and 1010 0101
ReadBytes == {90, 165}

ReadFiles == SeqsUpTo(ReadBytes, MaxFileLen)

\* widths below, at and above one byte
ReadWidths == {1, 3, BYTE_SIZE, 9}

\* the width recorded for a read made without a width (__next__)
NoWidth == 0

InitReads ==
    /\ pc = "br_read"
    /\ input = <<>>
    /\ in_pos = 0
    /\ comp = CompressorBlank
    /\ seq_parent = ROOT
    /\ bw = BitWriter_init
    /\ zfile \in ReadFiles
    /\ zclosed = TRUE
    /\ written = <<>>
    /\ decomp = DecompressorBlank
    /\ br = BitReader_init
    /\ dloc = NoLocals
    /\ out = <<>>
    /\ readlog = <<>>
    /\ result = [compress |-> "none", decompress |-> "none"]
    /\ exists = [input |-> FALSE, zfile |-> TRUE, out |-> FALSE]
    /\ handles = [NoHandles EXCEPT !.d_in = "open"]
    /\ drv = NoDriver

\* the entry logged for one call: asked is the width passed to read(), or
\* NoWidth; stop says that the call raised StopIteration
ReadEntry(n, asked) ==
    [value |-> n.value, width |-> n.r.bits_per_read, eof |-> n.hit_eof,
     stop |-> n.stop, asked |-> asked]

\* BitReader.set_bits_per_read(n) between two reads
ReadsSetWidth ==
    /\ pc = "br_read"
    /\ Len(readlog) < MaxReads
    /\ \E n \in ReadWidths : br' = BitReader_set_bits_per_read(br, n)
    /\ UNCHANGED <<pc, input, in_pos, comp, seq_parent, bw, zfile, zclosed, written,
                   decomp, dloc, out, readlog, result, exists, handles,
                   drv>>

\* BitReader.__next__(): a value is returned or StopIteration is raised
ReadsNext ==
    /\ pc = "br_read"
    /\ Len(readlog) < MaxReads
    /\ LET n == BitReader_next(br, zfile)
       IN  /\ br' = n.r
           /\ readlog' = Append(readlog, ReadEntry(n, NoWidth))
    /\ UNCHANGED <<pc, input, in_pos, comp, seq_parent, bw, zfile, zclosed, written,
                   decomp, dloc, out, result, exists, handles, drv>>

\* BitReader.read(n)
ReadsRead ==
    /\ pc = "br_read"
    /\ Len(readlog) < MaxReads
    /\ \E w \in ReadWidths :
          LET n == BitReader_read(br, zfile, w)
          IN  /\ br' = n.r
              /\ readlog' = Append(readlog, ReadEntry(n, w))
    /\ UNCHANGED <<pc, input, in_pos, comp, seq_parent, bw, zfile, zclosed, written,
                   decomp, dloc, out, result, exists, handles, drv>>

NextReads ==
    \/ ReadsSetWidth
    \/ ReadsNext
    \/ ReadsRead

SpecReads == InitReads /\ [][NextReads]_vars

----------------------------------------------------------------------------
(* SpecCompressor: LZWCompressorHelper._handle_file(file) on a regular file,
   with or without the force and keep flags; the time flag changes no file *)

\* 0o600 and 0o644
Modes == {384, 420}

\* inputs whose compressed file is larger than (the empty file, AAA, ABAB),
\* as large as (AAAAA) and smaller than (AAAAAA, ABABABA) the input
HelperInputs == RepeatInputs \cup {<<>>, <<65, 65, 65, 65, 65>>}

\* the flags and permission masks a helper can start with
Drivers ==
    {[NoDriver EXCEPT !.force = f, !.keep = k, !.named_z = z,
                      !.mode = [input |-> m[1], zfile |-> m[2], out |-> m[3]]] :
        f \in BOOLEAN, k \in BOOLEAN, z \in BOOLEAN,
        m \in Modes \X Modes \X Modes}

InitCompressor ==
    /\ pc = "h_compress"
    /\ exists \in {[input |-> TRUE, zfile |-> z, out |-> FALSE] : z \in BOOLEAN}
    /\ input \in HelperInputs
    /\ in_pos = 0
    /\ comp = CompressorBlank
    /\ seq_parent = ROOT
    /\ bw = BitWriter_init
    /\ zfile \in (IF exists.zfile THEN OldFiles ELSE {<<>>})
    /\ zclosed = FALSE
    /\ written = <<>>
    /\ decomp = DecompressorBlank
    /\ br = BitReader_init
    /\ dloc = NoLocals
    /\ out = <<>>
    /\ readlog = <<>>
    /\ result = [compress |-> "none", decompress |-> "none"]
    /\ handles = NoHandles
    /\ drv \in Drivers

\* faulty variant of KeepsCompressed: a file of equal size is kept as well
KeepsCompressed_OrEqual(force, compressed_size, uncompressed_size) ==
    force \/ compressed_size <= uncompressed_size

\* if self._force or compressed_size < uncompressed_size
KeepsCompressed(force, compressed_size, uncompressed_size) ==
    force \/ compressed_size < uncompressed_size

\* faulty variant of SavingRaises: an empty original counts as no saving
SavingRaises_Never(uncompressed_size) == FALSE

\* (1 - (compressed_size / uncompressed_size)) * 100 raises ZeroDivisionError
SavingRaises(uncompressed_size) == uncompressed_size = 0

\* _handle_file up to the call of compress: os.stat(file), the size and the
\* permission mask of the original
CompressorHelperStat ==
    /\ pc = "h_compress"
    /\ exists.input
    /\ drv' = [drv EXCEPT !.uncompressed_size = Len(input),
                          !.perm_mask = drv.mode.input]
    /\ pc' = "compress"
    /\ UNCHANGED <<input, in_pos, comp, seq_parent, bw, zfile, zclosed, written,
                   decomp, br, dloc, out, readlog, result, exists, handles>>

\* _handle_file after compress has returned: os.path.getsize(file_out), then
\* keep file.Z (print the saving, remove the original unless keep, chmod) or
\* remove file.Z
CompressorHelperFinish ==
    /\ pc = "c_done"
    /\ LET compressed_size == Len(zfile)
       IN  IF KeepsCompressed(drv.force, compressed_size, drv.uncompressed_size)
           THEN IF SavingRaises(drv.uncompressed_size)
                THEN /\ pc' = "h_raised"
                     /\ drv' = [drv EXCEPT !.raised = "ZeroDivisionError"]
                     /\ UNCHANGED exists
                ELSE /\ pc' = "h_done"
                     /\ exists' = [exists EXCEPT !.input = drv.keep]
                     /\ drv' = [drv EXCEPT
                                  !.mode.zfile = drv.perm_mask,
                                  !.calls = (IF drv.keep THEN <<>>
                                             ELSE << <<"remove", "input">> >>)
                                            \o << <<"chmod", "zfile", drv.perm_mask>> >>]
           ELSE /\ pc' = "h_done"
                /\ exists' = [exists EXCEPT !.zfile = FALSE]
                /\ drv' = [drv EXCEPT !.calls = << <<"remove", "zfile">> >>]
    /\ UNCHANGED <<input, in_pos, comp, seq_parent, bw, zfile, zclosed, written,
                   decomp, br, dloc, out, readlog, result, handles>>

NextCompressor ==
    \/ CompressorHelperStat
    \/ CompressBegin
    \/ CompressStep
    \/ CompressEnd
    \/ CompressorHelperFinish

SpecCompressor == InitCompressor /\ [][NextCompressor]_vars

----------------------------------------------------------------------------
(* SpecDecompressor: LZWDecompressorHelper._handle_file(file) on a regular
   file whose name ends in .Z or not, with or without the force and keep
   flags.  When the output path is the path of the file itself (in place),
   zfile is what a reader of that path finds and out is what the ByteWriter
   has been given; both are the one file once the ByteWriter is closed. *)

\* files given to the helper: empty, the stream of "A", two files on which
\* decompress raises, and a file that is no stream at all
HelperFiles == {<<>>, <<32, 192, 0>>, <<128, 0>>, <<128, 128>>, <<65, 66, 65>>}

InitDecompressor ==
    /\ pc = "h_decompress"
    /\ exists \in {[input |-> FALSE, zfile |-> TRUE, out |-> o] : o \in BOOLEAN}
    /\ input = <<>>
    /\ in_pos = 0
    /\ comp = CompressorBlank
    /\ seq_parent = ROOT
    /\ bw = BitWriter_init
    /\ zfile \in HelperFiles
    /\ zclosed = TRUE
    /\ written = <<>>
    /\ decomp = DecompressorBlank
    /\ br = BitReader_init
    /\ dloc = NoLocals
    /\ out = (IF exists.out THEN OldOutput ELSE <<>>)
    /\ readlog = <<>>
    /\ result = [compress |-> "none", decompress |-> "none"]
    /\ handles = NoHandles
    /\ drv \in Drivers

\* faulty variant of OpenedForWriting: the file is opened without truncation
OpenedForWriting_Kept(file) == file

\* open(path, "wb"): what the path holds once the ByteWriter is constructed
OpenedForWriting(file) == <<>>

\* faulty variant of CopiesPermissions: the in-place case is not told apart
CopiesPermissions_Always(in_place) == TRUE

\* if not in_place: permission mask, removal of the file, chmod
CopiesPermissions(in_place) == ~in_place

\* the file does not end in .Z and the force flag is not set: skipped
DecompressorHelperSkip ==
    /\ pc = "h_decompress"
    /\ ~drv.named_z
    /\ ~drv.force
    /\ pc' = "h_skipped"
    /\ UNCHANGED <<input, in_pos, comp, seq_parent, bw, zfile, zclosed, written,
                   decomp, br, dloc, out, readlog, result, exists, handles, drv>>

\* _handle_file up to and into decompress(file, file_out): file_out is the
\* name without .Z or, with the force flag, the file itself; decompress finds
\* the file, runs _init(), opens the BitReader, then the ByteWriter, reads the
\* first code and writes its path
DecompressorHelperCall ==
    /\ pc = "h_decompress"
    /\ drv.named_z \/ drv.force
    /\ exists.zfile
    /\ LET in_place == ~drv.named_z
       IN  /\ drv' = [drv EXCEPT !.in_place = in_place]
           /\ zfile' = (IF in_place THEN OpenedForWriting(zfile) ELSE zfile)
           /\ exists' = (IF in_place THEN exists ELSE [exists EXCEPT !.out = TRUE])
           /\ DecompressOpenOn(Decompressor_init, zfile')
    /\ handles' = [handles EXCEPT !.d_in = "open", !.d_out = "open"]
    /\ UNCHANGED <<input, in_pos, comp, seq_parent, bw, zclosed, written>>

\* _handle_file after decompress has returned: unless in place, the mask of
\* the file is read, the file is removed unless keep, and the mask is set on
\* the output
DecompressorHelperFinish ==
    /\ pc = "d_done"
    /\ pc' = "h_done"
    /\ IF CopiesPermissions(drv.in_place)
       THEN LET perm_mask == drv.mode.zfile
                file_out  == IF drv.in_place THEN "zfile" ELSE "out"
            IN  /\ exists' = [exists EXCEPT !.zfile = drv.keep]
                /\ drv' = [drv EXCEPT
                             !.perm_mask = perm_mask,
                             !.mode = [@ EXCEPT ![file_out] = perm_mask],
                             !.calls = (IF drv.keep THEN <<>>
                                        ELSE << <<"remove", "zfile">> >>)
                                       \o << <<"chmod", file_out, perm_mask>> >>]
       ELSE UNCHANGED <<exists, drv>>
    /\ zfile' = (IF drv.in_place THEN out ELSE zfile)
    /\ UNCHANGED <<input, in_pos, comp, seq_parent, bw, zclosed, written,
                   decomp, br, dloc, out, readlog, result, handles>>

NextDecompressor ==
    \/ DecompressorHelperSkip
    \/ DecompressorHelperCall
    \/ DecompressStep
    \/ DecompressEnd
    \/ DecompressorHelperFinish

SpecDecompressor == InitDecompressor /\ [][NextDecompressor]_vars

----------------------------------------------------------------------------
(* Properties *)

\* decompress has returned or raised
Finished == pc \in {"d_done", "d_raised"}

\* decompress has been entered
Decoding == pc \in {"d_loop", "d_done", "d_raised"}

\* the n bits of v, most significant first
BitsOf(v, n) == [i \in 1..n |-> (v \div (2 ^ (n - i))) % 2]

\* the bits of a file, most significant bit of each byte first
FileBits(file) ==
    [i \in 1..(BYTE_SIZE * Len(file)) |->
        (file[((i - 1) \div BYTE_SIZE) + 1] \div (2 ^ (BYTE_SIZE - 1 - ((i - 1) % BYTE_SIZE)))) % 2]

\* the bits of a sequence of (value, width) pairs, in order
RECURSIVE WrittenBits(_)
WrittenBits(w) ==
    IF w = <<>> THEN <<>>
    ELSE BitsOf(Head(w)[1], Head(w)[2]) \o WrittenBits(Tail(w))

\* the sum of the widths of the pairs lo..hi of a sequence of (value, width)
\* pairs, summed by halves
RECURSIVE TotalBitsIn(_, _, _)
TotalBitsIn(w, lo, hi) ==
    IF lo > hi THEN 0
    ELSE IF lo = hi THEN w[lo][2]
    ELSE LET mid == (lo + hi) \div 2
         IN  TotalBitsIn(w, lo, mid) + TotalBitsIn(w, mid + 1, hi)

\* the sum of the widths of a sequence of (value, width) pairs
TotalBits(w) == TotalBitsIn(w, 1, Len(w))

\* the number of file bits the BitReader has handed out as values
BitsConsumed == BYTE_SIZE * br.pos - br.read_bit_count

\* C1: for every non-empty input X, compress then decompress both succeed and
\* the output file holds exactly X.
C1_RoundTripIdentity ==
    (Finished /\ input # <<>>) =>
        /\ result.compress = "True"
        /\ result.decompress = "True"
        /\ out = input

\* C2: for the empty input, compress then decompress complete without error
\* and the output file is empty.
C2_RoundTripEmpty ==
    (Finished /\ input = <<>>) =>
        /\ pc = "d_done"
        /\ result.decompress = "True"
        /\ out = <<>>

\* C3: for the input holding every byte value 0..255 once in ascending order,
\* the decompressed output is exactly these 256 bytes.
C3_RoundTripAllBytes ==
    (Finished /\ input = AllBytes) =>
        /\ Len(out) = ALPHABET_SIZE
        /\ \A i \in 1..ALPHABET_SIZE : out[i] = i - 1

\* C4: at every position of the code stream, the stream-end marker included,
\* the decoder reads the code with the width the encoder wrote it with.
C4_WidthLockstep ==
    Decoding =>
        \A i \in 1..Len(readlog) :
            i <= Len(written) => readlog[i].width = written[i][2]

\* C5: on a stream produced by compress, decompress ends its loop by reading
\* the stream-end marker; the end-of-file path of the BitReader is never
\* taken and no bit of the padding after the marker is decoded.
\* (Stated for the streams of non-empty inputs: the stream of the empty input
\* is not decoded at all, see C2.)
C5_TailPaddingTolerance ==
    input # <<>> =>
        /\ Decoding =>
            /\ ~br.eof
            /\ \A i \in 1..Len(readlog) : ~readlog[i].eof
            /\ BitsConsumed <= TotalBits(written)
        /\ Finished =>
            /\ pc = "d_done"
            /\ readlog[Len(readlog)].value = STREAM_END

\* C6: reading the file of a closed BitWriter with the widths of the writes,
\* in order, returns exactly the values written.
C6_BitRoundTrip ==
    \A i \in 1..Len(readlog) :
        /\ ~readlog[i].eof
        /\ readlog[i].width = written[i][2]
        /\ readlog[i].value = written[i][1]

\* C6 witness: values of different widths, the first not byte-aligned and not
\* zero, have all been read back.
C6_Witness ==
    /\ pc = "br_read"
    /\ Len(written) >= 2
    /\ Len(readlog) = Len(written)
    /\ written[1][2] # written[2][2]
    /\ written[1][2] % BYTE_SIZE # 0
    /\ written[1][1] # 0
    /\ written[2][2] = WideWidth

\* C7: after close(), the first T bits of the file (T the sum of the widths)
\* are the big-endian bits of the values in write order, and every later bit
\* is zero.
C7_Layout ==
    zclosed =>
        LET fb == FileBits(zfile)
            wb == WrittenBits(written)
        IN  /\ Len(wb) <= Len(fb)
            /\ \A i \in 1..Len(fb) : fb[i] = (IF i <= Len(wb) THEN wb[i] ELSE 0)

\* C7 witness: a closed file of several bytes whose writes end off a byte
\* boundary, two of them too narrow to complete a byte.
C7_Witness ==
    /\ zclosed
    /\ Len(written) = 3
    /\ written[1][2] + written[2][2] < BYTE_SIZE
    /\ written[1][1] # 0
    /\ written[2][1] # 0
    /\ TotalBits(written) % BYTE_SIZE # 0
    /\ Len(zfile) >= 3

\* C8: after writes of T bits in all and close(), the file is ceil(T/8) bytes
\* long, so at most 7 padding bits follow the last bit written.
C8_PaddingBound ==
    (zclosed /\ written # <<>>) =>
        LET T == TotalBits(written)
        IN  /\ Len(zfile) = (T + BYTE_SIZE - 1) \div BYTE_SIZE
            /\ BYTE_SIZE * Len(zfile) - T <= BYTE_SIZE - 1

\* C9: for the empty input only the stream-end marker is emitted, at width 9,
\* and the compressed file is the two bytes 0x80 0x00.
C9_EmptyInputStream ==
    (zclosed /\ input = <<>>) =>
        /\ written = << <<STREAM_END, 9>> >>
        /\ zfile = <<128, 0>>

\* C10 as claimed: for the input 0x41 the codes 65 and 256 are emitted at
\* width 9 and the compressed file is 0x20 0xB0 0x00.
C10_SingleByteStream_Claimed ==
    (zclosed /\ input = <<65>>) =>
        /\ written = << <<65, 9>>, <<STREAM_END, 9>> >>
        /\ zfile = <<32, 176, 0>>

\* C10 amended: for the input 0x41 the codes 65 and 256 are emitted at width 9
\* and the compressed file is 0x20 0xC0 0x00.
C10_SingleByteStream ==
    (zclosed /\ input = <<65>>) =>
        /\ written = << <<65, 9>>, <<STREAM_END, 9>> >>
        /\ zfile = <<32, 192, 0>>

\* C10 witness: compress has returned on the input 0x41.
C10_Witness ==
    /\ pc = "c_done"
    /\ input = <<65>>
    /\ result.compress = "True"
    /\ Len(zfile) = 3

\* C11: the input 0x41 0x41 is emitted as 65, 65, 256 and the input
\* 0x41 0x42 0x41 0x42 as 65, 66, 257, 256, every code at width 9; 257 is the
\* entry (65, 0x42), in the dictionary from the first emit on.
C11_SmallStreams ==
    /\ (zclosed /\ input = <<65, 65>>) =>
           written = << <<65, 9>>, <<65, 9>>, <<STREAM_END, 9>> >>
    /\ (zclosed /\ input = <<65, 66, 65, 66>>) =>
           written = << <<65, 9>>, <<66, 9>>, <<257, 9>>, <<STREAM_END, 9>> >>
    /\ (input = <<65, 66, 65, 66>> /\ written # <<>>) =>
           /\ written[1] = <<65, 9>>
           /\ GetSequence(comp, 65, 66) = 257
    /\ (input = <<65, 66, 65, 66>> /\ written = <<>>) =>
           GetSequence(comp, 65, 66) = NoSequence

\* C11 witness: compress has returned on 0x41 0x42 0x41 0x42, the code 257
\* among the four codes written.
C11_Witness ==
    /\ pc = "c_done"
    /\ input = <<65, 66, 65, 66>>
    /\ Len(written) = 4
    /\ written[3][1] = 257

\* C12: for the input holding every byte value 0..255 once in ascending order
\* the encoder emits the codes 0..255 and then 256; the last data code (255)
\* goes out at width 9 and the stream-end marker at width 10.
C12_AllBytesWidths ==
    (zclosed /\ input = AllBytes) =>
        /\ Len(written) = ALPHABET_SIZE + 1
        /\ \A i \in 1..ALPHABET_SIZE : written[i][1] = i - 1
        /\ written[ALPHABET_SIZE] = <<ALPHABET_SIZE - 1, 9>>
        /\ written[ALPHABET_SIZE + 1] = <<STREAM_END, 10>>

\* the step inserts an entry into the dictionary of the compressor
CompressorInserts == comp'.next_sequence_number = comp.next_sequence_number + 1

\* the step inserts an entry into the table of the decompressor
DecompressorInserts == decomp'.next_sequence_number = decomp.next_sequence_number + 1

\* what the step adds to the width of the compressor
CompressorWidens ==
    comp'.current_sequence_bit_count - comp.current_sequence_bit_count

\* what the step adds to the width of the decompressor
DecompressorWidens ==
    decomp'.current_sequence_bit_count - decomp.current_sequence_bit_count

\* the width of the first code the step writes, 0 if it writes none
WidthEmitted ==
    IF Len(written') > Len(written) THEN written'[Len(written) + 1][2] ELSE 0

\* C13 as claimed: an insert adds 1 to the width exactly when the encoder
\* inserts code 2^w - 1 or the decoder inserts code 2^w (w the width before
\* the insert) and 0 otherwise; the first code the encoder emits after
\* inserting code 511 is written with 10 bits.
C13_WidthTiming_Claimed ==
    [][/\ CompressorInserts =>
            CompressorWidens =
                (IF comp.next_sequence_number = 2 ^ comp.current_sequence_bit_count - 1
                 THEN 1 ELSE 0)
       /\ DecompressorInserts =>
            DecompressorWidens =
                (IF decomp.next_sequence_number = 2 ^ decomp.current_sequence_bit_count
                 THEN 1 ELSE 0)
       /\ (Len(written') > Len(written) /\ comp.next_sequence_number = 512) =>
            WidthEmitted = 10]_vars

\* C13 amended: an insert adds 1 to the width exactly when the encoder inserts
\* code 2^w or the decoder inserts code 2^w - 1 (w the width before the
\* insert) and 0 otherwise; the first code the encoder emits after inserting
\* code 511 is written with 9 bits, the first after inserting code 512 with 10.
C13_WidthTiming ==
    [][/\ CompressorInserts =>
            CompressorWidens =
                (IF comp.next_sequence_number = 2 ^ comp.current_sequence_bit_count
                 THEN 1 ELSE 0)
       /\ DecompressorInserts =>
            DecompressorWidens =
                (IF decomp.next_sequence_number = 2 ^ decomp.current_sequence_bit_count - 1
                 THEN 1 ELSE 0)
       /\ (Len(written') > Len(written) /\ comp.next_sequence_number = 512) =>
            WidthEmitted = 9
       /\ (Len(written') > Len(written) /\ comp.next_sequence_number = 513) =>
            WidthEmitted = 10]_vars

\* C13 witness: the encoder has inserted the codes 511 and 512 and emitted a
\* code after each, and the decoder has inserted code 511 and widened to 10.
C13_Witness ==
    /\ Len(written) >= 257
    /\ written[256] = <<255, 9>>
    /\ written[257] = <<0, 10>>
    /\ decomp.next_sequence_number = 512
    /\ decomp.current_sequence_bit_count = 10

\* ceil(log2(n)) for n >= 1: the least k with 2^k >= n
RECURSIVE CeilLog2From(_, _)
CeilLog2From(n, k) == IF 2 ^ k >= n THEN k ELSE CeilLog2From(n, k + 1)

CeilLog2(n) == CeilLog2From(n, 0)

Max(a, b) == IF a >= b THEN a ELSE b

\* C14: at every point after the initialization of the encoder, its width is
\* ceil(log2(next_code)), next_code the next code it will assign.
C14_EncoderWidthFormula ==
    pc # "c_init" =>
        comp.current_sequence_bit_count = CeilLog2(comp.next_sequence_number)

\* C14 witness: the encoder has inserted code 512 and its width is 10.
C14_Witness ==
    /\ pc = "c_loop"
    /\ comp.next_sequence_number = 513
    /\ comp.current_sequence_bit_count = 10

\* C15 as claimed: after every insert that follows initialization, on the
\* encoder and on the decoder alike, the width is
\* max(9, ceil(log2(next_code + 1))), next_code the next code to assign.
C15_WidthClosedForm_Claimed ==
    /\ comp.next_sequence_number > ALPHABET_SIZE + 1 =>
          comp.current_sequence_bit_count =
              Max(9, CeilLog2(comp.next_sequence_number + 1))
    /\ decomp.next_sequence_number > ALPHABET_SIZE + 1 =>
          decomp.current_sequence_bit_count =
              Max(9, CeilLog2(decomp.next_sequence_number + 1))

\* C15 amended: after every insert that follows initialization the width of
\* the decoder is max(9, ceil(log2(next_code + 1))) and the width of the
\* encoder is max(9, ceil(log2(next_code))), next_code the next code to assign.
C15_WidthClosedForm ==
    /\ comp.next_sequence_number > ALPHABET_SIZE + 1 =>
          comp.current_sequence_bit_count =
              Max(9, CeilLog2(comp.next_sequence_number))
    /\ decomp.next_sequence_number > ALPHABET_SIZE + 1 =>
          decomp.current_sequence_bit_count =
              Max(9, CeilLog2(decomp.next_sequence_number + 1))

\* C15 witness: encoder and decoder have both inserted code 511; the width of
\* the decoder is 10, that of the encoder 9.
C15_Witness ==
    /\ comp.next_sequence_number = 512
    /\ comp.current_sequence_bit_count = 9
    /\ decomp.next_sequence_number = 512
    /\ decomp.current_sequence_bit_count = 10

\* C16: in the initialization of encoder and decoder and in all of encoding
\* and decoding the width never decreases, and an insert changes it by 0 or
\* by exactly 1.
C16_WidthMonotone ==
    [][/\ CompressorWidens \in {0, 1}
       /\ DecompressorWidens \in {0, 1}
       /\ ~CompressorInserts => CompressorWidens = 0
       /\ ~DecompressorInserts => DecompressorWidens = 0]_vars

\* C16 witness: both widths have grown from 0 through the initialization to 9
\* and then to 10 while coding.
C16_Witness ==
    /\ pc = "d_loop"
    /\ comp.current_sequence_bit_count = 10
    /\ decomp.current_sequence_bit_count = 10

\* the codes of the dictionary of the compressor
CompressorCodes ==
    {comp.sequence_table[k] : k \in DOMAIN comp.sequence_table}

\* the step leaves every stored key of the compressor with its code and every
\* stored entry of the decompressor in its place
EntriesKept ==
    /\ \A k \in DOMAIN comp.sequence_table :
          /\ k \in DOMAIN comp'.sequence_table
          /\ comp'.sequence_table[k] = comp.sequence_table[k]
    /\ Len(decomp'.sequence_table) >= Len(decomp.sequence_table)
    /\ \A i \in 1..Len(decomp.sequence_table) :
          decomp'.sequence_table[i] = decomp.sequence_table[i]

\* C17: in every reachable state the codes of the encoder dictionary are
\* exactly 0..next_code-1 with no two keys on the same code, and the decoder
\* table has exactly next_code entries, entry i (i an alphabet code or the
\* stream-end marker) being [i]; no step overwrites a stored key or entry.
C17_DictionaryDensity ==
    /\ [](/\ CompressorCodes = 0..(comp.next_sequence_number - 1)
          /\ Cardinality(DOMAIN comp.sequence_table) = comp.next_sequence_number
          /\ Len(decomp.sequence_table) = decomp.next_sequence_number
          /\ \A i \in 1..Len(decomp.sequence_table) :
                /\ decomp.sequence_table[i] # <<>>
                /\ i <= ALPHABET_SIZE + 1 => decomp.sequence_table[i] = <<i - 1>>)
    /\ [][EntriesKept]_vars

\* C17 witness: on 'AAA' both sides have stored code 257, the sequence 'AA',
\* the decoder on reading the code 257 itself.
C17_Witness ==
    /\ pc = "d_done"
    /\ input = <<65, 65, 65>>
    /\ comp.next_sequence_number = 258
    /\ GetSequence(comp, 65, 65) = 257
    /\ decomp.next_sequence_number = 258
    /\ decomp.sequence_table[258] = <<65, 65>>
    /\ readlog[2].value = 257

\* C18: after the initialization of the encoder the codes 0..255 are the keys
\* (ROOT, b), code 256 is the key (ROOT, stream-end marker), the next code is
\* 257 and the width 9; after the initialization of the decoder its table is
\* [0], ..., [255], [256], the next code is 257 and the width 9.
C18_InitialState ==
    /\ (pc = "c_loop" /\ in_pos = 0) =>
          /\ DOMAIN comp.sequence_table =
                 {<<ROOT, b>> : b \in 0..(ALPHABET_SIZE - 1)} \cup {<<ROOT, STREAM_END>>}
          /\ \A b \in 0..(ALPHABET_SIZE - 1) : comp.sequence_table[<<ROOT, b>>] = b
          /\ comp.sequence_table[<<ROOT, STREAM_END>>] = 256
          /\ comp.next_sequence_number = 257
          /\ comp.current_sequence_bit_count = 9
    /\ (pc \in {"d_loop", "d_raised"} /\ Len(readlog) = 1) =>
          /\ decomp.sequence_table = [i \in 1..257 |-> <<i - 1>>]
          /\ decomp.next_sequence_number = 257
          /\ decomp.current_sequence_bit_count = 9

\* C18 witness: the decoder has run its 257 initial inserts and read its
\* first code; the encoder, initialized before, still holds its initial keys.
C18_Witness ==
    /\ pc = "d_loop"
    /\ Len(readlog) = 1
    /\ Len(decomp.sequence_table) = 257
    /\ GetSequence(comp, ROOT, STREAM_END) = 256
    /\ GetSequence(comp, ROOT, 255) = 255

\* C19: when decompress reaches the end of the file before it has read the
\* stream-end marker, it does not return success: a returned decompress has
\* read the marker as its last code.
C19_TruncatedInput ==
    pc = "d_done" =>
        /\ readlog # <<>>
        /\ readlog[Len(readlog)].value = STREAM_END
        /\ ~readlog[Len(readlog)].eof

\* C20: when the loop of the decoder reads a code greater than its next code,
\* decompress raises; it stores no entry and writes no output for that code.
C20_MalformedCode ==
    [][LET n == BitReader_next(br, zfile)
       IN  (pc = "d_loop" /\ ~n.stop /\ n.value > decomp.next_sequence_number) =>
               /\ pc' = "d_raised"
               /\ decomp' = decomp
               /\ out' = out]_vars

\* C21: compress and decompress return False when their input path does not
\* exist, without opening a file and without creating or modifying the output
\* path; when the input path exists and no error occurs they return True.
C21_MissingInput ==
    /\ [](/\ pc \notin {"compress", "c_loop"} =>
                result.compress = (IF exists.input THEN "True" ELSE "False")
          /\ result.compress = "False" =>
                handles.c_in = "none" /\ handles.c_out = "none"
          /\ pc = "d_done" =>
                result.decompress = (IF exists.zfile THEN "True" ELSE "False")
          /\ result.decompress = "False" =>
                handles.d_in = "none" /\ handles.d_out = "none")
    /\ [][/\ (pc = "compress" /\ ~exists.input) =>
                UNCHANGED <<exists, zfile, out, handles>>
          /\ (pc = "c_done" /\ ~exists.zfile) =>
                UNCHANGED <<exists, zfile, out, handles>>]_vars

\* C21 witness: neither input path exists; both calls have returned False,
\* no file object was created and the output path, which existed, holds
\* what it held.
C21_Witness ==
    /\ pc = "d_done"
    /\ result = [compress |-> "False", decompress |-> "False"]
    /\ handles = NoHandles
    /\ exists = [input |-> FALSE, zfile |-> FALSE, out |-> TRUE]
    /\ out = OldOutput

\* C22: on every exit of compress and of decompress, by return or by an
\* error raised while coding, the file objects it opened have been closed.
C22_ResourceRelease ==
    /\ result.compress # "none" =>
          handles.c_in # "open" /\ handles.c_out # "open"
    /\ Finished =>
          handles.d_in # "open" /\ handles.d_out # "open"

\* C23: decoding the two bytes 0x80 0x00, the stream-end marker alone at
\* width 9, completes successfully with an output of 0 bytes.
C23_MarkerOnlyStream ==
    (Finished /\ zfile = <<128, 0>>) =>
        /\ pc = "d_done"
        /\ result.decompress = "True"
        /\ out = <<>>

\* the compressor after one more input byte c, as a function: st holds the
\* compressor, seq_parent, the BitWriter and the bytes written so far
EncodeByte(st, c) ==
    LET seq == GetSequence(st.comp, st.seq_parent, c)
    IN  IF seq # NoSequence
        THEN [st EXCEPT !.seq_parent = seq]
        ELSE LET w  == BitWriter_write(st.bw, st.file, st.seq_parent,
                                       st.comp.current_sequence_bit_count)
                 c2 == InsertNextSequence(st.comp, st.seq_parent, c)
             IN  [comp |-> c2, seq_parent |-> GetSequence(c2, ROOT, c),
                  bw |-> w.w, file |-> w.file]

RECURSIVE EncodeFrom(_, _, _)
EncodeFrom(st, x, i) ==
    IF i > Len(x) THEN st ELSE EncodeFrom(EncodeByte(st, x[i]), x, i + 1)

\* the bytes a fresh compressor writes for the input x, as a function of x
CompressedBytes(x) ==
    LET st == EncodeFrom([comp |-> Compressor_init, seq_parent |-> ROOT,
                          bw |-> BitWriter_init, file |-> <<>>], x, 1)
        width == st.comp.current_sequence_bit_count
        w1 == BitWriter_write(st.bw, st.file, st.seq_parent, width)
        w2 == BitWriter_write(w1.w, w1.file, STREAM_END, width)
    IN  BitWriter_close(w2.w, w2.file).file

\* C24: the compressed file is a function of the input bytes only: whatever
\* the paths held before, compress leaves in the output file exactly the
\* bytes CompressedBytes(input), so two runs on equal inputs give equal files.
C24_Determinism ==
    result.compress = "True" => zfile = CompressedBytes(input)

\* C24 witness: compress has returned on 'ABAB' where the compressed path
\* and the output path existed beforehand.
C24_Witness ==
    /\ pc = "c_done"
    /\ result.compress = "True"
    /\ input = <<65, 66, 65, 66>>
    /\ exists.out
    /\ zfile = <<32, 144, 160, 48, 0>>

\* the key (parent, edge) under which the compressor c holds the code
KeyOf(c, code) ==
    CHOOSE k \in DOMAIN c.sequence_table : c.sequence_table[k] = code

\* the byte string spelled by the path from ROOT to the node of the code in
\* the dictionary of the compressor c
RECURSIVE StringOf(_, _)
StringOf(c, code) ==
    IF code = ROOT THEN <<>>
    ELSE LET k == KeyOf(c, code) IN Append(StringOf(c, k[1]), k[2])

\* the node reached from node along the bytes s[i..], NoSequence if an edge
\* is missing
RECURSIVE WalkFrom(_, _, _, _)
WalkFrom(c, s, i, node) ==
    IF i > Len(s) THEN node
    ELSE IF <<node, s[i]>> \in DOMAIN c.sequence_table
         THEN WalkFrom(c, s, i + 1, c.sequence_table[<<node, s[i]>>])
         ELSE NoSequence

\* the code of the byte string s in the dictionary of c, NoSequence if absent
CodeOfString(c, s) == WalkFrom(c, s, 1, ROOT)

\* the byte strings of the codes lo..hi of written, concatenated, by halves
RECURSIVE StringsOf(_, _, _)
StringsOf(c, lo, hi) ==
    IF lo > hi THEN <<>>
    ELSE IF lo = hi THEN StringOf(c, written[lo][1])
    ELSE LET mid == (lo + hi) \div 2
         IN  StringsOf(c, lo, mid) \o StringsOf(c, mid + 1, hi)

\* C25: for every non-empty input each data code emitted denotes the longest
\* prefix of the input not yet encoded that the dictionary holds at that
\* moment, and the byte strings of the data codes, in emission order, make
\* up exactly the input.
C25_EncoderParse ==
    /\ []((pc = "c_done" /\ result.compress = "True" /\ input # <<>>) =>
            StringsOf(comp, 1, Len(written) - 1) = input)
    /\ [][(Len(written') > Len(written) /\ input # <<>>) =>
            LET code  == written'[Len(written) + 1][1]
                str   == StringOf(comp, code)
                start == in_pos - Len(str) + 1
            IN  /\ code \in {comp.sequence_table[k] : k \in DOMAIN comp.sequence_table}
                /\ str # <<>>
                /\ str = SubSeq(input, start, in_pos)
                /\ \A n \in (in_pos + 1)..Len(input) :
                      CodeOfString(comp, SubSeq(input, start, n)) = NoSequence]_vars

\* C25 witness: 'ABAB' has been emitted as 'A', 'B', 'AB': the third code
\* denotes a string of two bytes found in the dictionary.
C25_Witness ==
    /\ pc = "c_done"
    /\ input = <<65, 66, 65, 66>>
    /\ Len(written) = 4
    /\ StringOf(comp, written[3][1]) = <<65, 66>>

\* C26: when the code read equals the next code of the decoder, the sequence
\* written is the previous output sequence extended by its own first byte
\* and is the entry stored in that step; in every state of the loop the
\* tracked first byte is the first byte of the previous output sequence.
C26_SpecialCase ==
    /\ [](pc = "d_loop" =>
            /\ dloc.seq_parent_path # <<>>
            /\ dloc.seq_path_first = dloc.seq_parent_path[1])
    /\ [][LET n == BitReader_next(br, zfile)
              prev == dloc.seq_parent_path
          IN  (pc = "d_loop" /\ ~n.stop /\ n.value = decomp.next_sequence_number) =>
                  /\ out' = out \o Append(prev, prev[1])
                  /\ Len(decomp'.sequence_table) = Len(decomp.sequence_table) + 1
                  /\ decomp'.sequence_table[Len(decomp'.sequence_table)]
                        = Append(prev, prev[1])
                  /\ dloc'.seq_parent_path = Append(prev, prev[1])
                  /\ dloc'.seq_path_first = dloc.seq_path_first]_vars

\* C26 witness: on 'ABABABA' the decoder has read code 259 while 259 was its
\* next code and has written 'ABA', the previous sequence 'AB' and its 'A'.
C26_Witness ==
    /\ input = <<65, 66, 65, 66, 65, 66, 65>>
    /\ Len(readlog) = 4
    /\ readlog[4].value = 259
    /\ Len(decomp.sequence_table) = 260
    /\ decomp.sequence_table[260] = <<65, 66, 65>>
    /\ out = <<65, 66, 65, 66, 65, 66, 65>>

\* C27: on the stream that compress produces for a non-empty input, every
\* data code the decoder reads is at most the next code of the decoder at
\* that moment and is not 256: no lookup leaves the table (no error is
\* raised) and the entry [256] is never written to the output.
C27_CodesInRange ==
    /\ [](input # <<>> =>
            /\ pc # "d_raised"
            /\ readlog # <<>> => readlog[1].value \in 0..(ALPHABET_SIZE - 1)
            /\ \A i \in 1..Len(out) : out[i] # STREAM_END)
    /\ [][LET n == BitReader_next(br, zfile)
          IN  (input # <<>> /\ pc = "d_loop" /\ ~n.stop /\ n.value # STREAM_END) =>
                  /\ n.value <= decomp.next_sequence_number
                  /\ n.value < Len(decomp'.sequence_table)]_vars

\* C27 witness: on 'AAA' the decoder has read the code 257 while its next
\* code was 257, and has gone on to the end.
C27_Witness ==
    /\ pc = "d_done"
    /\ input = <<65, 65, 65>>
    /\ readlog[2].value = 257
    /\ out = input

\* C28: for every non-empty input, once the decoder has processed the i-th
\* data code of the encoder (i >= 2), each of its entries with a code in
\* 0..255 or 257..255+i is the byte string spelled by the path from ROOT to
\* the node of that code in the dictionary of the encoder.
\* In every state of the decoding the path is followed one edge at a time
\* (the entry of a key (parent, edge) is the entry of parent followed by
\* edge); once decompress has ended each entry is compared with the whole
\* path, read off the dictionary of the encoder.
C28_DictionarySync ==
    (input # <<>> /\ Decoding /\ Len(readlog) >= 2) =>
        LET table == decomp.sequence_table
            codes == CompressorCodes
            last  == IF Len(table) <= ALPHABET_SIZE + Len(written) - 1
                     THEN Len(table) - 1
                     ELSE ALPHABET_SIZE - 1 + Len(written) - 1
        IN  /\ last < comp.next_sequence_number
            /\ \A k \in DOMAIN comp.sequence_table :
                  LET code == comp.sequence_table[k]
                  IN  (code # STREAM_END /\ code <= last) =>
                          table[code + 1] =
                              Append(IF k[1] = ROOT THEN <<>> ELSE table[k[1] + 1], k[2])
            /\ Finished =>
                  \A code \in 0..last :
                      code # STREAM_END =>
                          /\ code \in codes
                          /\ table[code + 1] = StringOf(comp, code)

\* C28 witness: on 'ABAB' the decoder has processed the three data codes and
\* holds 'AB' and 'BA' as entries 257 and 258, as the encoder does.
C28_Witness ==
    /\ pc = "d_done"
    /\ input = <<65, 66, 65, 66>>
    /\ decomp.sequence_table[258] = <<65, 66>>
    /\ decomp.sequence_table[259] = <<66, 65>>
    /\ CodeOfString(comp, <<65, 66>>) = 257
    /\ CodeOfString(comp, <<66, 65>>) = 258

\* C29: for every non-empty input the stream-end marker is emitted exactly
\* once, as the last code, after the last pending parent and before the
\* BitWriter is closed; no data code is 256 and ROOT is never emitted.
C29_EmissionOrder ==
    /\ [](input # <<>> =>
            /\ ~zclosed =>
                  \A i \in 1..Len(written) : written[i][1] \notin {STREAM_END, ROOT}
            /\ zclosed =>
                  /\ Len(written) >= 2
                  /\ written[Len(written)][1] = STREAM_END
                  /\ written[Len(written) - 1][1] = seq_parent
                  /\ \A i \in 1..(Len(written) - 1) :
                        written[i][1] \notin {STREAM_END, ROOT}
                  /\ TotalBits(written) <= BYTE_SIZE * Len(zfile))
    /\ [][zclosed => (written' = written /\ zfile' = zfile)]_vars

\* C29 witness: compress has returned on 0x00..0xFF with 256 data codes, the
\* last of them the pending parent 255, and the marker after them.
C29_Witness ==
    /\ pc = "c_done"
    /\ input = AllBytes
    /\ Len(written) = 257
    /\ written[256][1] = 255
    /\ written[257][1] = STREAM_END

\* C30: for every non-empty input every value the encoder passes to
\* BitWriter.write satisfies 0 <= code < next_code <= 2^width, width being
\* the width of the encoder used for that write.
C30_CodeFitsWidth ==
    [][(Len(written') > Len(written) /\ input # <<>>) =>
          \A i \in (Len(written) + 1)..Len(written') :
              /\ written'[i][2] = comp.current_sequence_bit_count
              /\ 0 <= written'[i][1]
              /\ written'[i][1] < comp.next_sequence_number
              /\ comp.next_sequence_number <= 2 ^ written'[i][2]]_vars

\* C30 witness: on 0x00..0xFF the last codes are written at width 9 while
\* the next code is 512 = 2^9.
C30_Witness ==
    /\ pc = "c_done"
    /\ input = AllBytes
    /\ comp.next_sequence_number = 512
    /\ written[256] = <<255, 9>>
    /\ written[257] = <<STREAM_END, 9>>

\* the number a sequence of bits denotes, most significant bit first
RECURSIVE BitsValue(_)
BitsValue(b) ==
    IF b = <<>> THEN 0
    ELSE 2 * BitsValue(SubSeq(b, 1, Len(b) - 1)) + b[Len(b)]

RECURSIVE WidthsRead(_, _)
WidthsRead(log, n) ==
    IF n = 0 THEN 0 ELSE WidthsRead(log, n - 1) + log[n].width

\* C32: after every read that does not hit the end of the file, whatever
\* widths (>= 1) were used and however they were changed between the reads
\* (set_bits_per_read or read(n)), the count of buffered bits is in 0..7,
\* unaligned_rest is less than 2 to that count and holds exactly the file bits
\* consumed and not yet returned, the bits returned so far are the sum of the
\* widths of the reads, and a width passed to read(n) is the width of that
\* read and of the later reads made without a width.
C32_ReaderState ==
    /\ []((~br.eof /\ readlog # <<>>) =>
            LET fb == FileBits(zfile)
                c  == br.read_bit_count
            IN  /\ c \in 0..(BYTE_SIZE - 1)
                /\ br.unaligned_rest \in 0..(2 ^ c - 1)
                /\ BYTE_SIZE * br.pos <= Len(fb)
                /\ br.unaligned_rest =
                       BitsValue(SubSeq(fb, BYTE_SIZE * br.pos - c + 1, BYTE_SIZE * br.pos))
                /\ BitsConsumed = WidthsRead(readlog, Len(readlog))
                /\ \A i \in 1..Len(readlog) :
                       readlog[i].value =
                           BitsValue(SubSeq(fb, WidthsRead(readlog, i - 1) + 1,
                                            WidthsRead(readlog, i))))
    /\ [][(Len(readlog') > Len(readlog) /\ ~br'.eof) =>
             LET e == readlog'[Len(readlog')]
             IN  /\ e.asked # NoWidth => br'.bits_per_read = e.asked
                 /\ e.asked = NoWidth => br'.bits_per_read = br.bits_per_read
                 /\ BitsConsumed' = BitsConsumed + br'.bits_per_read]_vars

\* C32 witness: a read of 3 bits by read(3), a read without a width, the
\* width set to 9 by set_bits_per_read and a third read without a width, none
\* of them at the end of the file; one bit is buffered.
C32_Witness ==
    /\ pc = "br_read"
    /\ zfile = <<90, 165, 90>>
    /\ Len(readlog) = 3
    /\ ~br.eof
    /\ readlog[1].asked = 3
    /\ readlog[2].asked = NoWidth /\ readlog[2].width = 3
    /\ readlog[3].asked = NoWidth /\ readlog[3].width = 9
    /\ br.read_bit_count = 1
    /\ br.unaligned_rest = 1

\* the file bits that a reader has not yet returned or dropped
BitsLeft(r, file) == BYTE_SIZE * (Len(file) - r.pos) + r.read_bit_count

\* C33: a read finds the end of the file exactly when fewer than
\* bits_per_read bits are left; it then returns the bits that were buffered
\* before the call (unaligned_rest) and sets eof, this happens at most once,
\* eof stays set, and every later read raises StopIteration without returning
\* a value and without consuming anything.
C33_EndOfFile ==
    /\ [](Cardinality({i \in 1..Len(readlog) : readlog[i].eof}) <= 1)
    /\ [][br.eof => br'.eof]_vars
    /\ [][Len(readlog') > Len(readlog) =>
             LET e == readlog'[Len(readlog')]
             IN  /\ e.stop <=> br.eof
                 /\ e.stop => /\ ~e.eof
                              /\ br' = [br EXCEPT !.bits_per_read = br'.bits_per_read]
                 /\ e.eof <=> (~br.eof /\ BitsLeft(br, zfile) < br'.bits_per_read)
                 /\ e.eof => /\ e.value = br.unaligned_rest
                             /\ br'.eof
                             /\ br'.unaligned_rest = br.unaligned_rest]_vars

\* C33 witness: on a file of two bytes, 8 bits are read, then a read of 9 bits
\* finds the end of the file and returns the 0 bits buffered before it (not
\* the byte it consumed), and the two later reads raise StopIteration.
C33_Witness ==
    /\ zfile = <<165, 90>>
    /\ Len(readlog) = 4
    /\ readlog[1].value = 165 /\ ~readlog[1].eof
    /\ readlog[2].width = 9 /\ readlog[2].eof /\ readlog[2].value = 0
    /\ ~readlog[2].stop
    /\ readlog[3].stop /\ readlog[4].stop
    /\ br.pos = 2

\* the reads logged that returned bits of the file
FileReads == {i \in 1..Len(readlog) : ~readlog[i].eof}

\* C34: on every file decompress terminates, by returning or by raising:
\* the file being there decompress is entered, inside the loop a step is
\* always possible, every step reads one more code or finishes and nothing
\* follows the finish, the codes read from the file are at least 9 bits wide
\* and fit together in the bits of the file, and at most one more value, the
\* one returned at the end of the file, is read after them.
C34_Termination ==
    /\ [](Decoding =>
            LET k == Cardinality(FileReads)
            IN  /\ FileReads = 1..k
                /\ Len(readlog) <= k + 1
                /\ \A i \in 1..Len(readlog) : readlog[i].width >= 9
                /\ WidthsRead(readlog, k) <= BYTE_SIZE * Len(zfile)
                /\ 9 * Len(readlog) <= BYTE_SIZE * Len(zfile) + 9)
    /\ [](pc = "c_done" => exists.zfile)
    /\ [](pc = "d_loop" => ENABLED (DecompressStep \/ DecompressEnd))
    /\ [](pc \in {"c_done", "d_loop", "d_done", "d_raised"})
    /\ [][Finished' \/ Len(readlog') = Len(readlog) + 1]_vars
    /\ [][~Finished]_vars

\* C34 witness: decompress has returned on a file of three bytes without a
\* marker after two codes read from the file and the value returned at its end.
C34_Witness ==
    /\ pc = "d_done"
    /\ Len(zfile) = 3
    /\ Len(readlog) = 3
    /\ FileReads = {1, 2}
    /\ readlog[3].eof
    /\ \A i \in 1..3 : readlog[i].value # STREAM_END

\* LZWCompressorHelper._handle_file has returned or raised
CompressorHelperEnded == pc \in {"h_done", "h_raised"}

\* C35: when LZWCompressorHelper._handle_file(file) returns normally, file.Z
\* is kept if and only if the force flag is set or the compressed size is
\* strictly smaller than the original size; otherwise file.Z is removed and
\* nothing else is done; the original is removed only when file.Z is kept
\* and the keep flag is not set, so one of file and file.Z exists afterwards;
\* the content and the mask of the original are never changed.
C35_KeepsData ==
    /\ [](pc = "h_done" =>
            LET kept == drv.force \/ Len(zfile) < Len(input)
            IN  /\ exists.zfile <=> kept
                /\ ~kept => (exists.input /\ drv.calls = << <<"remove", "zfile">> >>)
                /\ ~exists.input <=> (kept /\ ~drv.keep)
                /\ exists.input \/ exists.zfile)
    /\ [][input' = input /\ drv'.mode.input = drv.mode.input]_vars

\* C35 witness: without the force flag, a compressed file exactly as large as
\* the original (five bytes) has been removed and the original is there.
C35_Witness ==
    /\ pc = "h_done"
    /\ ~drv.force
    /\ ~drv.keep
    /\ Len(input) = 5
    /\ Len(zfile) = 5
    /\ ~exists.zfile
    /\ exists.input

\* C36: on an empty file with the force flag _handle_file raises
\* ZeroDivisionError where it computes the space saving: file.Z has been
\* written and closed by then, and the original is not removed, no mask is
\* set and no os call is made.
C36_EmptyForced ==
    /\ []((CompressorHelperEnded /\ input = <<>> /\ drv.force) =>
            /\ pc = "h_raised"
            /\ drv.raised = "ZeroDivisionError"
            /\ result.compress = "True"
            /\ zclosed
            /\ exists.input
            /\ exists.zfile
            /\ zfile = <<255, 192, 0>>
            /\ drv.calls = <<>>)
    /\ [][pc' = "h_raised" =>
             /\ pc = "c_done"
             /\ input = <<>> /\ drv.force
             /\ exists' = exists
             /\ drv'.mode = drv.mode
             /\ zfile' = zfile]_vars

\* C36 witness: _handle_file has raised on an empty file where a file.Z with
\* other content and another mask was there before; the keep flag is not set.
C36_Witness ==
    /\ pc = "h_raised"
    /\ input = <<>>
    /\ drv.force
    /\ ~drv.keep
    /\ exists.input
    /\ zfile = <<255, 192, 0>>
    /\ drv.mode.zfile # drv.mode.input

\* C37: with the force flag on a file whose name does not end in .Z the
\* helper calls decompress with the file as input and as output; the file is
\* truncated when the output is opened, before any code is read, so the first
\* read is at the end of the file and returns 0, the byte 0x00 is written,
\* decompress returns True and the file holds that one byte.
C37_InPlace ==
    /\ [][(pc = "h_decompress" /\ pc' # "h_skipped" /\ ~drv.named_z) =>
             /\ drv.force
             /\ drv'.in_place
             /\ zfile' = <<>>
             /\ readlog' = << [value |-> 0, width |-> 9, eof |-> TRUE] >>
             /\ out' = <<0>>
             /\ pc' = "d_loop"]_vars
    /\ [](drv.in_place =>
            /\ ~drv.named_z /\ drv.force
            /\ pc \in {"d_loop", "d_done", "h_done"}
            /\ Len(readlog) = 1
            /\ out = <<0>>
            /\ pc # "d_loop" => result.decompress = "True"
            /\ pc = "h_done" => zfile = <<0>>)

\* C37 witness: the helper has returned from an in-place run; the file holds
\* the byte 0x00 and nothing of what it held.
C37_Witness ==
    /\ pc = "h_done"
    /\ drv.in_place
    /\ drv.force
    /\ result.decompress = "True"
    /\ zfile = <<0>>
    /\ exists.zfile

\* the last os call of the helper is chmod(file_out, mask of the input file)
MaskCopied(file_out) ==
    /\ drv.calls # <<>>
    /\ drv.calls[Len(drv.calls)] = <<"chmod", file_out, drv.mode.zfile>>
    /\ drv.mode[file_out] = drv.mode.zfile

\* C38 as claimed: whenever the decompression helper returns from decompress,
\* the in-place case included, it has copied the mask of the input file onto
\* the output file.
C38_Permissions_Claimed ==
    pc = "h_done" => MaskCopied(IF drv.in_place THEN "zfile" ELSE "out")

\* C38 amended: the decompression helper copies the mask of the input file
\* onto the output file only when the output is another path (the name ends
\* in .Z); in the in-place case it makes no os.chmod and no os.remove call and
\* no mask changes.
C38_Permissions ==
    /\ [](pc = "h_done" =>
            IF drv.in_place THEN drv.calls = <<>> /\ exists.zfile
            ELSE MaskCopied("out") /\ (exists.zfile <=> drv.keep))
    /\ [][drv'.in_place => (drv'.mode = drv.mode /\ drv'.calls = <<>>)]_vars
    /\ [][pc' # "h_done" => (drv'.mode = drv.mode /\ drv'.calls = <<>>)]_vars

\* C38 witness: an in-place run has returned without the keep flag: no call
\* was made and the file is there.
C38_Witness ==
    /\ pc = "h_done"
    /\ drv.in_place
    /\ ~drv.keep
    /\ drv.calls = <<>>
    /\ exists.zfile
    /\ drv.mode.zfile # drv.mode.out

====
